---- MODULE Spec2Model ----
(***************************************************************************)
(* Model of zmq/scripts/format_jmh_dotnet_style.py: the JMH result         *)
(* aggregation of process_benchmark_type and the module-level driver that  *)
(* runs it for the 'memory' and then the 'receive' benchmark type.         *)
(*                                                                         *)
(* Floating-point values are modelled as exact rationals [n, d] in lowest  *)
(* terms; JSON objects as records whose optional members are <<>> (absent) *)
(* or <<v>> (present); a benchmark name "a.b.c" as the sequence of its     *)
(* dot-separated components; a numeric string as its sequence of digits;   *)
(* a label's ordering by its sequence of code points.                      *)
(***************************************************************************)
EXTENDS Integers, Sequences, FiniteSets, TLC

\* Largest number of records in the input collection.
MaxRecords == 3

----------------------------------------------------------------------------
\* Optional JSON members: dict[key] raises KeyError when absent, dict.get
\* returns a default.
None == << >>
Some(v) == << v >>
Has(o) == o # << >>
Get(o) == o[1]
GetOr(o, default) == IF Has(o) THEN o[1] ELSE default

----------------------------------------------------------------------------
\* Exact rationals standing for Python floats.
RECURSIVE GCD(_, _)
GCD(a, b) == IF b = 0 THEN a ELSE GCD(b, a % b)

Abs(x) == IF x < 0 THEN -x ELSE x

\* n / d with d # 0, in lowest terms with a positive denominator.
Rat(n, d) ==
  LET g == GCD(Abs(n), Abs(d))
      s == IF d < 0 THEN -1 ELSE 1
  IN [n |-> s * (n \div g), d |-> s * (d \div g)]

RatInt(i) == [n |-> i, d |-> 1]
RatMul(x, y) == Rat(x.n * y.n, x.d * y.d)
RatDiv(x, y) == Rat(x.n * y.d, x.d * y.n)
One == RatInt(1)
Zero == RatInt(0)

----------------------------------------------------------------------------
\* int(s) of a string of decimal digits.
RECURSIVE int(_)
int(digits) ==
  IF digits = << >> THEN 0
  ELSE 10 * int(SubSeq(digits, 1, Len(digits) - 1)) + digits[Len(digits)]

\* Code points of the variant labels, as Python compares str values.
LabelCodes ==
  "ByteArray_SendRecv" :> <<66, 121, 116, 101, 65, 114, 114, 97, 121, 95, 83, 101, 110, 100, 82, 101, 99, 118>> @@
  "ArrayPool_SendRecv" :> <<65, 114, 114, 97, 121, 80, 111, 111, 108, 95, 83, 101, 110, 100, 82, 101, 99, 118>> @@
  "Message_SendRecv" :> <<77, 101, 115, 115, 97, 103, 101, 95, 83, 101, 110, 100, 82, 101, 99, 118>> @@
  "MessageZeroCopy_SendRecv" :> <<77, 101, 115, 115, 97, 103, 101, 90, 101, 114, 111, 67, 111, 112, 121, 95, 83, 101, 110, 100, 82, 101, 99, 118>> @@
  "Custom_SendRecv" :> <<67, 117, 115, 116, 111, 109, 95, 83, 101, 110, 100, 82, 101, 99, 118>> @@
  "BLOCKING" :> <<66, 76, 79, 67, 75, 73, 78, 71>> @@
  "NON_BLOCKING" :> <<78, 79, 78, 95, 66, 76, 79, 67, 75, 73, 78, 71>> @@
  "POLLER" :> <<80, 79, 76, 76, 69, 82>> @@
  "UNKNOWN" :> <<85, 78, 75, 78, 79, 87, 78>> @@
  "A_MODE" :> <<65, 95, 77, 79, 68, 69>>

\* Python's str < str: the first differing code point decides, a proper
\* prefix is smaller.
RECURSIVE SeqLess(_, _)
SeqLess(a, b) ==
  IF b = << >> THEN FALSE
  ELSE IF a = << >> THEN TRUE
  ELSE IF a[1] # b[1] THEN a[1] < b[1]
  ELSE SeqLess(Tail(a), Tail(b))

StrLess(a, b) == SeqLess(LabelCodes[a], LabelCodes[b])

\* The < of the element type: int for sizes, str for labels.
Less(type, a, b) == IF type = "str" THEN StrLess(a, b) ELSE a < b

\* sorted(set(...)): the elements of S in ascending order, each at the
\* position given by the number of elements smaller than it.
sorted(S, type) ==
  [ i \in 1..Cardinality(S) |->
      CHOOSE x \in S : Cardinality({ y \in S : Less(type, y, x) }) = i - 1 ]

Range(s) == { s[i] : i \in DOMAIN s }

----------------------------------------------------------------------------
\* The input collection: one JSON object per benchmark execution.
Bench(cls, method, mode, size, count, score, alloc) ==
  [ benchmark |-> Some(<< "bench", cls, method >>),
    params |-> [ messageSize |-> size, messageCount |-> count, mode |-> mode ],
    primaryMetric |-> [ score |-> score, scoreError |-> Some(10),
                        rawData |-> Some(<< << 9, 11 >> >>) ],
    secondaryMetrics |-> [ gc_alloc_norm |-> alloc, gc_count |-> None ] ]

Mem == "MemoryStrategyBenchmark"
Recv == "ReceiveModeBenchmark"
S64 == Some(<< 6, 4 >>)
S128 == Some(<< 1, 2, 8 >>)
Count == Some(<< 1, 0 >>)

\* Well-formed records of the memory type: two sizes, scores 500 and 1000,
\* allocation figures absent, 32 and 64, a repeated (size, method) key, and
\* a method the display-name table does not list.
MemoryRecords ==
  { Bench(Mem, "ByteArray_SendRecv", None, S64, Count, Some(1000), None),
    Bench(Mem, "ByteArray_SendRecv", None, S64, Count, Some(500), Some(64)),
    Bench(Mem, "ByteArray_SendRecv", None, S128, Count, Some(500), Some(64)),
    Bench(Mem, "ArrayPool_SendRecv", None, S64, Count, Some(500), Some(32)),
    Bench(Mem, "ArrayPool_SendRecv", None, S128, Count, Some(1000), Some(32)),
    Bench(Mem, "Message_SendRecv", None, S64, Count, Some(1000), None),
    Bench(Mem, "MessageZeroCopy_SendRecv", None, S64, Count, Some(500), Some(32)),
    Bench(Mem, "Custom_SendRecv", None, S128, Count, Some(500), Some(64)) }

\* Well-formed records of the receive type; the last has no mode parameter.
ReceiveRecords ==
  { Bench(Recv, "run", Some("BLOCKING"), S64, Count, Some(1000), Some(64)),
    Bench(Recv, "run", Some("NON_BLOCKING"), S64, Count, Some(500), Some(32)),
    Bench(Recv, "run", Some("A_MODE"), S128, Count, Some(500), Some(32)),
    Bench(Recv, "run", None, S64, Count, Some(1000), None) }

\* Records lacking a required member, and a record of neither type.
MalformedRecords ==
  { Bench(Recv, "run", Some("POLLER"), None, Count, Some(1000), None),
    Bench(Mem, "Message_SendRecv", None, S64, Count, None, None),
    [ Bench(Mem, "ArrayPool_SendRecv", None, S64, Count, Some(500), None)
        EXCEPT !.benchmark = None ] }

OtherRecords ==
  { Bench("OtherBenchmark", "ByteArray_SendRecv", Some("BLOCKING"),
          None, Count, Some(1000), None) }

Records == MemoryRecords \cup ReceiveRecords \cup MalformedRecords \cup OtherRecords

Inputs == UNION { [ 1..n -> Records ] : n \in 0..MaxRecords }

----------------------------------------------------------------------------
\* 'pattern' in benchmark_name, for a pattern that is one whole component.
Contains(benchmark_name, pattern) ==
  \E i \in DOMAIN benchmark_name : benchmark_name[i] = pattern

\* benchmark_name.split('.')[-1]
LastComponent(benchmark_name) == benchmark_name[Len(benchmark_name)]

\* The filter of lines 71-78.
Selected(bench, benchmark_type) ==
  LET benchmark_name == Get(bench.benchmark)
  IN \/ benchmark_type = "memory" /\ Contains(benchmark_name, Mem)
     \/ benchmark_type = "receive" /\ Contains(benchmark_name, Recv)

\* bench['benchmark'] raises KeyError for some record of the collection.
FilterRaises(d) == \E i \in DOMAIN d : ~Has(d[i].benchmark)

FilteredData(d, benchmark_type) ==
  SelectSeq(d, LAMBDA bench : Selected(bench, benchmark_type))

\* method_names of lines 59-69, with .get(method, method).
method_names ==
  "ByteArray_SendRecv" :> "ByteArray_SendRecv" @@
  "ArrayPool_SendRecv" :> "ArrayPool_SendRecv" @@
  "Message_SendRecv" :> "Message_SendRecv" @@
  "MessageZeroCopy_SendRecv" :> "MessageZeroCopy_SendRecv" @@
  "BLOCKING" :> "Blocking_RouterToRouter" @@
  "NON_BLOCKING" :> "NonBlocking_RouterToRouter" @@
  "POLLER" :> "Poller_RouterToRouter"

DisplayName(method) ==
  IF method \in DOMAIN method_names THEN method_names[method] ELSE method

\* Lines 88-96: the variant label of a record.
NameOf(bench, benchmark_type) ==
  IF benchmark_type = "receive"
  THEN GetOr(bench.params.mode, "UNKNOWN")
  ELSE LastComponent(Get(bench.benchmark))

\* Lines 98-122 raise KeyError on an absent member and ZeroDivisionError on
\* an empty sample list or a zero score.
ParseRaises(bench) ==
  \/ ~Has(bench.params.messageSize)
  \/ ~Has(bench.params.messageCount)
  \/ ~Has(bench.primaryMetric.score)
  \/ ~Has(bench.primaryMetric.scoreError)
  \/ ~Has(bench.primaryMetric.rawData)
  \/ Has(bench.primaryMetric.rawData) /\ Get(bench.primaryMetric.rawData)[1] = << >>
  \/ Has(bench.primaryMetric.score) /\ Get(bench.primaryMetric.score) = 0

RECURSIVE Sum(_)
Sum(s) == IF s = << >> THEN Zero ELSE
  LET t == Sum(Tail(s)) IN Rat(s[1].n * t.d + t.n * s[1].d, s[1].d * t.d)

\* Lines 105-107: population variance of the first sample list.
Variance(raw_data) ==
  LET n == RatInt(Len(raw_data))
      mean == RatDiv(Sum([ i \in DOMAIN raw_data |-> RatInt(raw_data[i]) ]), n)
      dev(x) == Rat(x * mean.d - mean.n, mean.d)
  IN RatDiv(Sum([ i \in DOMAIN raw_data |->
                    RatMul(dev(raw_data[i]), dev(raw_data[i])) ]), n)

GroupKey(bench, benchmark_type) ==
  << int(Get(bench.params.messageSize)), NameOf(bench, benchmark_type) >>

\* Lines 116-127: the entry stored under the key. stddev is variance ** 0.5
\* times 1000 / score^2, kept as the rational under the square root.
DerivedStats(bench, benchmark_type) ==
  LET score == Get(bench.primaryMetric.score)
      error == Get(bench.primaryMetric.scoreError)
      factor == Rat(1000, score * score)
  IN [ name |-> NameOf(bench, benchmark_type),
       msg_size |-> int(Get(bench.params.messageSize)),
       msg_count |-> int(Get(bench.params.messageCount)),
       mean |-> Rat(1000, score),
       error |-> Rat(1000 * error, score * score),
       stddev |-> [ sqrt |-> RatMul(Variance(Get(bench.primaryMetric.rawData)[1]),
                                    RatMul(factor, factor)) ],
       score |-> score,
       gc_alloc_norm |-> GetOr(bench.secondaryMetrics.gc_alloc_norm, 0),
       gc_count |-> GetOr(bench.secondaryMetrics.gc_count, 0) ]

\* results[key] = {...}
Store(res, key, value) ==
  [ k \in DOMAIN res \cup { key } |-> IF k = key THEN value ELSE res[k] ]

----------------------------------------------------------------------------
\* Lines 132-139.
baseline_name(benchmark_type) ==
  IF benchmark_type = "memory" THEN Some("ByteArray_SendRecv")
  ELSE IF benchmark_type = "receive" THEN Some("BLOCKING")
  ELSE None

Sizes(res) == { k[1] : k \in DOMAIN res }
Methods(res) == { k[2] : k \in DOMAIN res }

\* Line 130.
MsgSizes(res) == sorted(Sizes(res), "int")

\* Baselines with the lookup key built once, from the smallest size with a
\* baseline, instead of once per size.
BaselinesOfFirstSize(res, benchmark_type) ==
  LET b == baseline_name(benchmark_type)
      with == { z \in Sizes(res) : Has(b) /\ << z, Get(b) >> \in DOMAIN res }
      first == CHOOSE z \in with : \A y \in with : z <= y
  IN [ size \in with |-> res[<< first, Get(b) >>] ]

\* Lines 141-145: the baseline entry of each size that has one.
Baselines(res, benchmark_type) ==
  LET b == baseline_name(benchmark_type)
  IN [ size \in { z \in Sizes(res) : Has(b) /\ << z, Get(b) >> \in DOMAIN res }
         |-> res[<< size, Get(b) >>] ]

\* MethodOrder without the step that moves the baseline to the front.
MethodOrderSortedOnly(res, benchmark_type) == sorted(Methods(res), "str")

\* Lines 153-160: baseline first, then the others in sorted order.
MethodOrder(res, benchmark_type) ==
  LET all_methods == sorted(Methods(res), "str")
      b == baseline_name(benchmark_type)
  IN IF Has(b) /\ Get(b) \in Range(all_methods)
     THEN << Get(b) >> \o SelectSeq(all_methods, LAMBDA m : m # Get(b))
     ELSE all_methods

\* The (size, method) pairs the nested loops of lines 170-176 and 227-231
\* reach without 'continue', in loop order.
RowKeys(res, sizes, order) ==
  LET n == Len(order)
      cross == [ k \in 1..(Len(sizes) * n) |->
                   << sizes[((k - 1) \div n) + 1], order[((k - 1) % n) + 1] >> ]
  IN SelectSeq(cross, LAMBDA key : key \in DOMAIN res)

\* BaselineOf falling back to the baseline of another size.
BaselineOfAnySize(bl, size) ==
  IF size \in DOMAIN bl THEN Some(bl[size])
  ELSE IF DOMAIN bl # {} THEN Some(bl[CHOOSE z \in DOMAIN bl : TRUE])
  ELSE None

\* baselines.get(size)
BaselineOf(bl, size) == IF size \in DOMAIN bl THEN Some(bl[size]) ELSE None

\* Line 185.
IsBaseline(method, benchmark_type) ==
  LET b == baseline_name(benchmark_type)
  IN IF Has(b) THEN method = Get(b) ELSE FALSE

\* Lines 186-189.
Ratio(r, baseline, is_baseline) ==
  IF Has(baseline) /\ ~is_baseline
  THEN RatDiv(r.mean, Get(baseline).mean)
  ELSE One

\* AllocRatio with 1 instead of 0 for a baseline that allocates nothing.
AllocRatioGuardOne(r, baseline, is_baseline) ==
  IF Has(baseline) /\ ~is_baseline
  THEN IF Get(baseline).gc_alloc_norm > 0
       THEN Rat(r.gc_alloc_norm, Get(baseline).gc_alloc_norm)
       ELSE One
  ELSE One

\* AllocRatio without the test that exempts the baseline's own row.
AllocRatioNoSelfTest(r, baseline, is_baseline) ==
  IF Has(baseline)
  THEN IF Get(baseline).gc_alloc_norm > 0
       THEN Rat(r.gc_alloc_norm, Get(baseline).gc_alloc_norm)
       ELSE Zero
  ELSE One

\* Lines 202-205.
AllocRatio(r, baseline, is_baseline) ==
  IF Has(baseline) /\ ~is_baseline
  THEN IF Get(baseline).gc_alloc_norm > 0
       THEN Rat(r.gc_alloc_norm, Get(baseline).gc_alloc_norm)
       ELSE Zero
  ELSE One

\* Lines 178-211: one row of the Performance Overview table.
OverviewRow(res, bl, key, benchmark_type) ==
  LET r == res[key]
      baseline == BaselineOf(bl, key[1])
      is_baseline == IsBaseline(key[2], benchmark_type)
  IN [ kind |-> "overview",
       type |-> benchmark_type,
       method |-> key[2],
       display_name |-> DisplayName(key[2]),
       size |-> key[1],
       msg_per_sec |-> r.msg_count * r.score,
       mean_ms |-> r.mean,
       ratio |-> Ratio(r, baseline, is_baseline),
       allocated |-> r.gc_alloc_norm,
       alloc_ratio |-> AllocRatio(r, baseline, is_baseline) ]

\* Lines 233-258: one row of the Detailed Metrics table.
DetailRow(res, key, benchmark_type) ==
  LET r == res[key]
  IN [ kind |-> "detail",
       type |-> benchmark_type,
       method |-> key[2],
       display_name |-> DisplayName(key[2]),
       size |-> key[1],
       score_ops |-> r.score,
       error_ms |-> r.error,
       stddev_ms |-> r.stddev,
       latency_ns |-> RatDiv(RatMul(r.mean, RatInt(1000000)), RatInt(r.msg_count)),
       gen0 |-> r.gc_count ]

DetailRows(res, sizes, order, benchmark_type) ==
  LET keys == RowKeys(res, sizes, order)
  IN [ i \in DOMAIN keys |-> DetailRow(res, keys[i], benchmark_type) ]

\* Line 84-127 run to the end over a filtered list.
RECURSIVE ParseAll(_, _)
ParseAll(fd, benchmark_type) ==
  IF fd = << >> THEN << >>
  ELSE LET bench == fd[Len(fd)]
       IN Store(ParseAll(SubSeq(fd, 1, Len(fd) - 1), benchmark_type),
                GroupKey(bench, benchmark_type),
                DerivedStats(bench, benchmark_type))

\* ParseDone for a loop that stops after its first record.
ParseDoneAfterFirst(i, fd) == i > 1

\* The parse loop has no record left.
ParseDone(i, fd) == i > Len(fd)

----------------------------------------------------------------------------
VARIABLES
  data,            \* the loaded JSON collection
  pc,              \* position of the script
  benchmark_type,  \* argument of the running process_benchmark_type call
  filtered_data,   \* records of the running call's type
  idx,             \* next record of filtered_data the parse loop takes
  results,         \* key -> entry
  msg_sizes,       \* sorted sizes
  baselines,       \* size -> baseline entry
  method_order,    \* ordered variant labels
  row,             \* next row of the overview table
  out              \* what has been printed

vars == << data, pc, benchmark_type, filtered_data, idx, results, msg_sizes,
           baselines, method_order, row, out >>

Init ==
  /\ data \in Inputs
  /\ pc = "header"
  /\ benchmark_type = "memory"
  /\ filtered_data = << >>
  /\ idx = 1
  /\ results = << >>
  /\ msg_sizes = << >>
  /\ baselines = << >>
  /\ method_order = << >>
  /\ row = 1
  /\ out = << >>

locals == << filtered_data, idx, results, msg_sizes, baselines, method_order, row >>

\* Lines 285-294: the report header.
PrintHeader ==
  /\ pc = "header"
  /\ out' = Append(out, [ kind |-> "header" ])
  /\ pc' = "filter"
  /\ UNCHANGED << data, benchmark_type, locals >>

\* Lines 71-78 on a collection with a record that has no 'benchmark'.
FilterError ==
  /\ pc = "filter"
  /\ FilterRaises(data)
  /\ pc' = "error"
  /\ UNCHANGED << data, benchmark_type, locals, out >>

\* Lines 80-81 and 297-298: nothing of this type; the call returns.
FilterEmpty ==
  /\ pc = "filter"
  /\ ~FilterRaises(data)
  /\ FilteredData(data, benchmark_type) = << >>
  /\ IF benchmark_type = "memory"
     THEN benchmark_type' = "receive" /\ pc' = "filter"
     ELSE benchmark_type' = benchmark_type /\ pc' = "done"
  /\ UNCHANGED << data, locals, out >>

\* Lines 71-84: the call goes on with the records of its type.
Filter ==
  /\ pc = "filter"
  /\ ~FilterRaises(data)
  /\ FilteredData(data, benchmark_type) # << >>
  /\ filtered_data' = FilteredData(data, benchmark_type)
  /\ idx' = 1
  /\ results' = << >>
  /\ pc' = "parse"
  /\ UNCHANGED << data, benchmark_type, msg_sizes, baselines, method_order, row, out >>

\* Lines 85-122 raising on the record at idx.
ParseError ==
  /\ pc = "parse"
  /\ ~ParseDone(idx, filtered_data)
  /\ ParseRaises(filtered_data[idx])
  /\ pc' = "error"
  /\ UNCHANGED << data, benchmark_type, locals, out >>

\* Lines 85-127: one iteration of the parse loop.
ParseRecord ==
  /\ pc = "parse"
  /\ ~ParseDone(idx, filtered_data)
  /\ ~ParseRaises(filtered_data[idx])
  /\ results' = Store(results, GroupKey(filtered_data[idx], benchmark_type),
                      DerivedStats(filtered_data[idx], benchmark_type))
  /\ idx' = idx + 1
  /\ UNCHANGED << data, pc, benchmark_type, filtered_data, msg_sizes, baselines,
                  method_order, row, out >>

\* Lines 129-168: sizes, baselines, section header, method order.
Group ==
  /\ pc = "parse"
  /\ ParseDone(idx, filtered_data)
  /\ msg_sizes' = MsgSizes(results)
  /\ baselines' = Baselines(results, benchmark_type)
  /\ method_order' = MethodOrder(results, benchmark_type)
  /\ out' = Append(out, [ kind |-> "section", type |-> benchmark_type ])
  /\ row' = 1
  /\ pc' = "overview"
  /\ UNCHANGED << data, benchmark_type, filtered_data, idx, results >>

\* Lines 170-211: the next row of the overview table.
PrintOverviewRow ==
  LET keys == RowKeys(results, msg_sizes, method_order)
  IN /\ pc = "overview"
     /\ row <= Len(keys)
     /\ out' = Append(out, OverviewRow(results, baselines, keys[row], benchmark_type))
     /\ row' = row + 1
     /\ pc' = IF row = Len(keys) THEN "detail" ELSE "overview"
     /\ UNCHANGED << data, benchmark_type, filtered_data, idx, results, msg_sizes,
                     baselines, method_order >>

\* Lines 222-264 and 297-298: the detailed table, then the call returns.
PrintDetail ==
  /\ pc = "detail"
  /\ out' = out \o DetailRows(results, msg_sizes, method_order, benchmark_type)
  /\ IF benchmark_type = "memory"
     THEN benchmark_type' = "receive" /\ pc' = "filter"
     ELSE benchmark_type' = benchmark_type /\ pc' = "done"
  /\ UNCHANGED << data, locals >>

Next ==
  \/ PrintHeader
  \/ FilterError
  \/ FilterEmpty
  \/ Filter
  \/ ParseError
  \/ ParseRecord
  \/ Group
  \/ PrintOverviewRow
  \/ PrintDetail

Spec == Init /\ [][Next]_vars

----------------------------------------------------------------------------
\* Views of the state used by the properties.

OverviewRows == { out[i] : i \in { j \in DOMAIN out : out[j].kind = "overview" } }

\* The records of the input that the call for benchmark_type t selects.
SelectedRecords(t) ==
  { data[i] : i \in { j \in DOMAIN data : Has(data[j].benchmark) /\ Selected(data[j], t) } }

\* The input has a record of type t with the key (size, t's baseline label).
HasBaselineRecord(t, size) ==
  \E bench \in SelectedRecords(t) :
     /\ ~ParseRaises(bench)
     /\ GroupKey(bench, t) = << size, Get(baseline_name(t)) >>

IsBaselineRow(x) == x.method = Get(baseline_name(x.type))

\* The ratio results of a row.
Bundle(x) == [ ratio |-> x.ratio, alloc_ratio |-> x.alloc_ratio ]

\* The parse loop of the running call is over.
Parsed == pc \in { "overview", "detail" }

----------------------------------------------------------------------------
\* C1 (as claimed): once a type's records are parsed, every input record of
\* that type is found under exactly one key of results, also when two records
\* share a key, and results holds nothing that is not such a record.
ClassificationComplete ==
  Parsed =>
    /\ \A bench \in SelectedRecords(benchmark_type) :
         Cardinality({ k \in DOMAIN results :
                         results[k] = DerivedStats(bench, benchmark_type) }) = 1
    /\ \A k \in DOMAIN results :
         \E bench \in SelectedRecords(benchmark_type) :
            /\ k = GroupKey(bench, benchmark_type)
            /\ results[k] = DerivedStats(bench, benchmark_type)

----------------------------------------------------------------------------
\* A record of one of the two types lacks a required member.
LacksRequired(bench) ==
  \/ ~Has(bench.benchmark)
  \/ /\ Has(bench.benchmark)
     /\ Selected(bench, "memory") \/ Selected(bench, "receive")
     /\ ParseRaises(bench)

\* C2 (as claimed): an input with a record lacking a required member never
\* runs to completion and never prints a section or a table row.
NoPartialOutput ==
  (\E i \in DOMAIN data : LacksRequired(data[i])) =>
    /\ pc # "done"
    /\ \A j \in DOMAIN out : out[j].kind = "header"

----------------------------------------------------------------------------
\* C3 (as claimed): in a size group whose baseline row has allocation 0,
\* every row, the baseline's included, reports alloc_ratio 0.
AllocZeroGuardAllRows ==
  \A a \in OverviewRows : \A b \in OverviewRows :
     ( /\ IsBaselineRow(a) /\ a.allocated = 0
       /\ b.type = a.type /\ b.size = a.size )
     => b.alloc_ratio = Zero

\* C3 (amended): in a size group whose baseline row has allocation 0, every
\* row other than the baseline's reports alloc_ratio 0, and the baseline's
\* own row reports 1.
AllocZeroGuardOtherRows ==
  \A a \in OverviewRows : \A b \in OverviewRows :
     ( /\ IsBaselineRow(a) /\ a.allocated = 0
       /\ b.type = a.type /\ b.size = a.size )
     => b.alloc_ratio = IF IsBaselineRow(b) THEN One ELSE Zero

AllocZeroGuardWitness ==
  \E a \in OverviewRows : \E b \in OverviewRows :
     /\ IsBaselineRow(a) /\ a.allocated = 0
     /\ b.type = a.type /\ b.size = a.size
     /\ ~IsBaselineRow(b) /\ b.allocated > 0 /\ b.alloc_ratio = Zero

----------------------------------------------------------------------------
\* C4: every row of a size that has no record with the baseline label
\* reports ratio 1 and alloc_ratio 1.
MissingBaselineFallback ==
  \A b \in OverviewRows :
     ~HasBaselineRecord(b.type, b.size) => b.ratio = One /\ b.alloc_ratio = One

MissingBaselineWitness ==
  \E a \in OverviewRows : \E b \in OverviewRows :
     /\ \E c \in OverviewRows : IsBaselineRow(c) /\ c.type = a.type
     /\ ~HasBaselineRecord(a.type, a.size)
     /\ b.type = a.type /\ b.size = a.size
     /\ a.mean_ms # b.mean_ms /\ a.allocated # b.allocated
     /\ a.ratio = One /\ b.ratio = One

----------------------------------------------------------------------------
\* C5 (as claimed): the ratio results of a row whose size has no baseline
\* differ from the ratio results of a row that is itself the baseline.
NoBaselineFlagged ==
  \A a \in OverviewRows : \A b \in OverviewRows :
     ( /\ IsBaselineRow(a)
       /\ ~HasBaselineRecord(b.type, b.size) )
     => Bundle(a) # Bundle(b)

----------------------------------------------------------------------------
\* C6: the row of the baseline label reports ratio 1 and alloc_ratio 1
\* whatever its score and allocation are.
BaselineRowIsOne ==
  \A a \in OverviewRows :
     IsBaselineRow(a) => a.ratio = One /\ a.alloc_ratio = One

BaselineRowWitness ==
  \E a \in OverviewRows : \E b \in OverviewRows :
     /\ IsBaselineRow(a) /\ a.allocated = 0 /\ a.alloc_ratio = One
     /\ IsBaselineRow(b) /\ b.allocated > 0 /\ b.mean_ms # a.mean_ms

----------------------------------------------------------------------------
\* C7: a row that is not the baseline's, of a size that has a baseline
\* record, reports ratio = its mean / the mean of the baseline row of the
\* same type and the same size.
RatioAgainstSameSize ==
  \A b \in OverviewRows :
     ( ~IsBaselineRow(b) /\ HasBaselineRecord(b.type, b.size) )
     => \E a \in OverviewRows :
           /\ IsBaselineRow(a) /\ a.type = b.type /\ a.size = b.size
           /\ b.ratio = RatDiv(b.mean_ms, a.mean_ms)

\* Scores 1000 and 500 at size 64 give means 1 ms and 2 ms and ratio 2,
\* next to a baseline of another size with another mean.
RatioWitness ==
  \E a \in OverviewRows : \E b \in OverviewRows : \E c \in OverviewRows :
     /\ a.type = "memory" /\ IsBaselineRow(a) /\ a.size = 64 /\ a.mean_ms = One
     /\ b.type = "memory" /\ b.method = "ArrayPool_SendRecv" /\ b.size = 64
     /\ b.mean_ms = RatInt(2) /\ b.ratio = RatInt(2)
     /\ c.type = "memory" /\ IsBaselineRow(c) /\ c.size # 64 /\ c.mean_ms # One

----------------------------------------------------------------------------
\* The variant labels of the input records of type t.
PresentLabels(t) == { NameOf(bench, t) : bench \in SelectedRecords(t) }

\* The display sequence the claim attributes to each type.
CanonicalOrder(t) ==
  IF t = "memory"
  THEN << "ByteArray_SendRecv", "ArrayPool_SendRecv", "Message_SendRecv",
          "MessageZeroCopy_SendRecv" >>
  ELSE << "BLOCKING", "NON_BLOCKING", "POLLER" >>

\* C8 (as claimed): the variant list is the recognized labels present, in
\* the type's canonical order, followed by the other labels present in
\* lexical order.
CanonicalVariantOrder ==
  Parsed =>
    method_order =
      SelectSeq(CanonicalOrder(benchmark_type),
                LAMBDA m : m \in PresentLabels(benchmark_type))
      \o sorted(PresentLabels(benchmark_type) \ Range(CanonicalOrder(benchmark_type)),
                "str")

\* C8 (amended): the variant list holds each label present exactly once,
\* the baseline label first if present, and every other label before each
\* label that is lexically greater, recognized or not.
BaselineFirstThenLexical ==
  Parsed =>
    LET b == Get(baseline_name(benchmark_type))
        n == Len(method_order)
    IN /\ Range(method_order) = PresentLabels(benchmark_type)
       /\ n = Cardinality(PresentLabels(benchmark_type))
       /\ b \in PresentLabels(benchmark_type) => method_order[1] = b
       /\ \A i \in 1..n : \A j \in 1..n :
            ( i < j /\ method_order[i] # b /\ method_order[j] # b )
            => StrLess(method_order[i], method_order[j])

\* The baseline is first although not lexically smallest, and
\* MessageZeroCopy_SendRecv precedes Message_SendRecv.
VariantOrderWitness ==
  /\ Parsed
  /\ \E i \in DOMAIN method_order : \E j \in DOMAIN method_order :
       /\ i < j
       /\ method_order[i] = "MessageZeroCopy_SendRecv"
       /\ method_order[j] = "Message_SendRecv"
  /\ method_order[1] = "ByteArray_SendRecv"

----------------------------------------------------------------------------
\* The reorderings of a sequence.
Reorderings(d) ==
  { [ i \in DOMAIN d |-> d[f[i]] ] :
      f \in { g \in [ DOMAIN d -> DOMAIN d ] :
                \A i \in DOMAIN d : \A j \in DOMAIN d : g[i] = g[j] => i = j } }

\* What a call prints for the records d when no record raises.
CallOutput(d, t) ==
  LET fd == FilteredData(d, t)
      res == ParseAll(fd, t)
      sizes == MsgSizes(res)
      order == MethodOrder(res, t)
      keys == RowKeys(res, sizes, order)
  IN IF fd = << >> THEN << >>
     ELSE << [ kind |-> "section", type |-> t ] >>
          \o [ i \in DOMAIN keys |-> OverviewRow(res, Baselines(res, t), keys[i], t) ]
          \o DetailRows(res, sizes, order, t)

RunOutput(d) ==
  << [ kind |-> "header" ] >> \o CallOutput(d, "memory") \o CallOutput(d, "receive")

\* C9 (as claimed): a completed run prints what the run on any permutation
\* of its input prints, also when several records share a key.
OrderIrrelevant ==
  pc = "done" => \A p \in Reorderings(data) : RunOutput(p) = out

----------------------------------------------------------------------------
\* Matching records of the input whose entry is still to be computed: the
\* unparsed records of the running call and, during the memory call, all
\* records of the receive call.
PendingOfCall == Len(filtered_data) - (idx - 1)

PendingOfRun ==
  PendingOfCall
  + IF benchmark_type = "memory" THEN Len(FilteredData(data, "receive")) ELSE 0

\* C10 (as claimed): over the whole run no ratio is computed while the entry
\* of some matching record of the input is still to be computed.
StatsBeforeRatiosWholeRun ==
  pc = "overview" => PendingOfRun = 0

\* C10 (amended): within each call, no baseline lookup and no ratio is
\* computed while the entry of some record of that call's type is still to
\* be computed.
StatsBeforeRatiosPerCall ==
  Parsed =>
    /\ filtered_data = FilteredData(data, benchmark_type)
    /\ PendingOfCall = 0
    /\ \A bench \in SelectedRecords(benchmark_type) :
         GroupKey(bench, benchmark_type) \in DOMAIN results

\* The receive call computes ratios over several records after the memory
\* call has printed its rows.
StatsBeforeRatiosWitness ==
  /\ pc = "overview"
  /\ benchmark_type = "receive"
  /\ Len(filtered_data) >= 2
  /\ row >= 2
  /\ \E x \in OverviewRows : x.type = "memory"

====
